---- MODULE Spec2Model ----
(***************************************************************************)
(* Covered-call simulator (CoveredCallStrategy.generate_signals) and its   *)
(* option pricer (CoveredCallStrategy.black_scholes_call).                 *)
(*                                                                         *)
(* Floating-point values are modelled in fixed point: the float x is the   *)
(* integer x * SCALE, truncated towards zero.  The IEEE special values the *)
(* code can produce are kept as the strings "NaN", "Inf" and "-Inf", and   *)
(* Python's None as "None"; every arithmetic operator below propagates     *)
(* them the way numpy's float64 arithmetic does.                           *)
(***************************************************************************)
EXTENDS Integers, Sequences, FiniteSets, TLC

RECURSIVE Pow10(_)
Pow10(n) == IF n = 0 THEN 1 ELSE 10 * Pow10(n - 1)

\* Fixed-point resolution: four decimal digits.
SCALE == Pow10(4)

\* A float: an ordinary number n (the float n / SCALE) or an IEEE special value.
Flt(n) == [k |-> "num", v |-> n]
NaN == [k |-> "nan", v |-> 0]
Inf == [k |-> "inf", v |-> 1]
NegInf == [k |-> "inf", v |-> -1]
\* Python's None, where a variable holds "a float or None".
None == [k |-> "none", v |-> 0]

IsNum(x) == x.k = "num"
IsNaN(x) == x.k = "nan"
IsInf(x) == x = Inf
IsNegInf(x) == x = NegInf
IsNone(x) == x.k = "none"

Abs(n) == IF n < 0 THEN -n ELSE n
\* -1, 0 or 1: the sign of a float (infinities included; never applied to NaN).
Sign(x) == IF x.v > 0 THEN 1 ELSE IF x.v < 0 THEN -1 ELSE 0
SignedInf(s) == IF s < 0 THEN NegInf ELSE Inf

\* a * b of two fixed-point integers, without leaving 32 bits on the way.
MulInt(a, b) ==
    LET x == Abs(a)
        y == Abs(b)
        big == IF x >= y THEN x ELSE y
        small == IF x >= y THEN y ELSE x
        m == (big \div SCALE) * small + ((big % SCALE) * small) \div SCALE
    IN IF (a < 0) # (b < 0) THEN -m ELSE m

\* n decimal digits of r / y, for 0 <= r < y.
RECURSIVE FracDigits(_, _, _)
FracDigits(r, y, n) ==
    IF n = 0 THEN 0
    ELSE LET t == r * 10
         IN (t \div y) * Pow10(n - 1) + FracDigits(t % y, y, n - 1)

\* a / b of two fixed-point integers, b # 0.
DivInt(a, b) ==
    LET x == Abs(a)
        y == Abs(b)
        q == (x \div y) * SCALE + FracDigits(x % y, y, 4)
    IN IF (a < 0) # (b < 0) THEN -q ELSE q

\* float64 negation, addition, subtraction, multiplication and division.
FNeg(a) == IF IsNaN(a) THEN NaN ELSE [a EXCEPT !.v = -a.v]

FAdd(a, b) ==
    IF IsNaN(a) \/ IsNaN(b) THEN NaN
    ELSE IF IsNum(a) /\ IsNum(b) THEN Flt(a.v + b.v)
    ELSE IF IsNum(a) THEN b
    ELSE IF IsNum(b) THEN a
    ELSE IF a = b THEN a ELSE NaN

FSub(a, b) == FAdd(a, FNeg(b))

FMul(a, b) ==
    IF IsNaN(a) \/ IsNaN(b) THEN NaN
    ELSE IF IsNum(a) /\ IsNum(b) THEN Flt(MulInt(a.v, b.v))
    ELSE IF Sign(a) = 0 \/ Sign(b) = 0 THEN NaN
    ELSE SignedInf(Sign(a) * Sign(b))

FDiv(a, b) ==
    IF IsNaN(a) \/ IsNaN(b) THEN NaN
    ELSE IF IsNum(a) /\ IsNum(b)
         THEN IF b.v # 0 THEN Flt(DivInt(a.v, b.v))
              ELSE IF a.v = 0 THEN NaN ELSE SignedInf(Sign(a))
    ELSE IF IsNum(a) THEN Flt(0)
    ELSE IF IsNum(b) THEN SignedInf(IF b.v < 0 THEN -Sign(a) ELSE Sign(a))
    ELSE NaN

\* float64 comparisons: every comparison with NaN is false.
FLt(a, b) ==
    IF IsNaN(a) \/ IsNaN(b) THEN FALSE
    ELSE IF IsNum(a) /\ IsNum(b) THEN a.v < b.v
    ELSE IF IsNum(a) THEN IsInf(b)
    ELSE IF IsNum(b) THEN IsNegInf(a)
    ELSE IsNegInf(a) /\ IsInf(b)

FEq(a, b) == (~IsNaN(a)) /\ (~IsNaN(b)) /\ a = b
FLe(a, b) == FLt(a, b) \/ FEq(a, b)
FGt(a, b) == FLt(b, a)
FGe(a, b) == FLe(b, a)

\* Python's max(a, b): b when b > a, otherwise a (so max(nan, 0.0) is nan).
PyMax(a, b) == IF FGt(b, a) THEN b ELSE a

\* floor(sqrt(n)) of an integer 0 <= n, by bisection between lo and hi.
RECURSIVE ISqrtBetween(_, _, _)
ISqrtBetween(n, lo, hi) ==
    IF hi - lo <= 1 THEN lo
    ELSE LET mid == (lo + hi) \div 2
         IN IF mid * mid <= n THEN ISqrtBetween(n, mid, hi)
            ELSE ISqrtBetween(n, lo, mid)

ISqrt(n) == ISqrtBetween(n, 0, 46341)

\* np.sqrt: nan below zero.
Sqrt(x) ==
    IF IsNaN(x) THEN NaN
    ELSE IF IsInf(x) THEN Inf
    ELSE IF x.v < 0 THEN NaN
    ELSE IF x.v <= 20 * SCALE THEN Flt(ISqrt(x.v * SCALE))
    ELSE Flt(ISqrt(x.v) * Pow10(2))

\* ln of a fixed-point integer n > 0: n is halved or doubled into [1, 2), then
\* ln m = 2 atanh((m - 1) / (m + 1)); 6931 is ln 2.
RECURSIVE LnInt(_)
LnInt(n) ==
    IF n >= 2 * SCALE THEN LnInt(n \div 2) + 6931
    ELSE IF n < SCALE THEN LnInt(n * 2) - 6931
    ELSE LET z == DivInt(n - SCALE, n + SCALE)
             z2 == MulInt(z, z)
             z3 == MulInt(z, z2)
             z5 == MulInt(z3, z2)
             z7 == MulInt(z5, z2)
         IN 2 * (z + z3 \div 3 + z5 \div 5 + z7 \div 7)

\* np.log: -inf at zero, nan below zero.
Ln(x) ==
    IF IsNaN(x) THEN NaN
    ELSE IF IsInf(x) THEN Inf
    ELSE IF x.v < 0 THEN NaN
    ELSE IF x.v = 0 THEN NegInf
    ELSE Flt(LnInt(x.v))

\* e^n of a fixed-point integer: the series up to n^4/24 for |n| <= 1/4, and
\* (e^(n/2))^2 beyond.
RECURSIVE ExpInt(_)
ExpInt(n) ==
    IF Abs(n) <= SCALE \div 4
    THEN LET n2 == MulInt(n, n)
             n3 == MulInt(n2, n)
             n4 == MulInt(n3, n)
         IN SCALE + n + n2 \div 2 + n3 \div 6 + n4 \div 24
    ELSE LET h == ExpInt(n \div 2) IN MulInt(h, h)

\* np.exp: float64 overflows to inf above 709.78 and underflows to 0.0 below
\* -745.13.
Exp(x) ==
    IF IsNaN(x) THEN NaN
    ELSE IF IsInf(x) THEN Inf
    ELSE IF IsNegInf(x) THEN Flt(0)
    ELSE IF x.v > 7097827 THEN Inf
    ELSE IF x.v < -7451332 THEN Flt(0)
    ELSE Flt(ExpInt(x.v))

\* The standard normal distribution function at 0.0, 0.1, ..., 4.0.
PhiTable ==
    << 5000, 5398, 5793, 6179, 6554, 6915, 7257, 7580, 7881, 8159,
       8413, 8643, 8849, 9032, 9192, 9332, 9452, 9554, 9641, 9713,
       9772, 9821, 9861, 9893, 9918, 9938, 9953, 9965, 9974, 9981,
       9987, 9990, 9993, 9995, 9997, 9998, 9998, 9999, 9999, 10000, 10000 >>

\* Phi(n) for a fixed-point integer n >= 0, interpolated in the table.
PhiInt(n) ==
    IF n >= 4 * SCALE THEN SCALE
    ELSE LET i == n \div 1000
             lo == PhiTable[i + 1]
             hi == PhiTable[i + 2]
         IN lo + ((hi - lo) * (n % 1000)) \div 1000

\* scipy.stats.norm.cdf
NormCdf(x) ==
    IF IsNaN(x) THEN NaN
    ELSE IF IsInf(x) THEN Flt(SCALE)
    ELSE IF IsNegInf(x) THEN Flt(0)
    ELSE IF x.v < 0 THEN Flt(SCALE - PhiInt(-x.v))
    ELSE Flt(PhiInt(x.v))

(***************************************************************************)
(* The option pricer.                                                      *)
(***************************************************************************)

\* strategy_template.py:49, the degenerate-input test.
Degenerate(S, K, T, r, sigma) ==
    FLe(S, Flt(0)) \/ FLe(K, Flt(0)) \/ FLe(sigma, Flt(0)) \/ FLe(T, Flt(0))

\* strategy_template.py:51-53, the closed form (the value of `call`).
ClosedForm(S, K, T, r, sigma) ==
    LET vol == FMul(sigma, Sqrt(T))
        drift == FMul(FAdd(r, FMul(Flt(SCALE \div 2), FMul(sigma, sigma))), T)
        d1 == FDiv(FAdd(Ln(FDiv(S, K)), drift), vol)
        d2 == FSub(d1, vol)
        discounted == FMul(K, Exp(FMul(FNeg(r), T)))
    IN FSub(FMul(S, NormCdf(d1)), FMul(discounted, NormCdf(d2)))

black_scholes_call(S, K, T, r, sigma) ==
    IF Degenerate(S, K, T, r, sigma) THEN Flt(0)
    ELSE PyMax(ClosedForm(S, K, T, r, sigma), Flt(0))

(***************************************************************************)
(* The volatility estimates.                                               *)
(***************************************************************************)

\* What the options-data collaborator (yfinance) does when asked: it raises,
\* it lists no expiry, or it returns a chain whose at-the-money row holds iv.
YfOutcomes ==
    {[o |-> "raises", iv |-> None], [o |-> "no_expiries", iv |-> None]}
    \cup {[o |-> "chain", iv |-> x] : x \in {NaN, Flt(0), Flt(3000)}}

\* get_current_iv: None when the lookup raises or finds no expiry; otherwise
\* the implied volatility of the call whose strike is nearest to spot.
get_current_iv(spot, outcome) ==
    IF outcome.o = "raises" THEN None
    ELSE IF outcome.o = "no_expiries" THEN None
    ELSE outcome.iv

\* np.log(pd.Series(prices)).diff().dropna(): the log-returns, as integers.
LogRets(prices) ==
    [i \in 1..(Len(prices) - 1) |-> Ln(prices[i + 1]).v - Ln(prices[i]).v]

RECURSIVE SumSeq(_)
SumSeq(xs) == IF xs = <<>> THEN 0 ELSE Head(xs) + SumSeq(Tail(xs))

\* pd.Series.std(): the sample standard deviation (ddof = 1), nan for fewer
\* than two values.
Std(xs) ==
    IF Len(xs) < 2 THEN NaN
    ELSE LET mean == SumSeq(xs) \div Len(xs)
             sq == [i \in 1..Len(xs) |-> (xs[i] - mean) * (xs[i] - mean)]
         IN Flt(ISqrt(SumSeq(sq) \div (Len(xs) - 1)))

\* strategy_template.py:90-92
HistoricalVol(prices) == FMul(Std(LogRets(prices)), Sqrt(Flt(52 * SCALE)))

\* strategy_template.py:87-94
SelectSigma(ivv, i, weeks) ==
    IF (~IsNone(ivv)) /\ FGt(ivv, Flt(0)) THEN ivv
    ELSE IF i > 0 THEN HistoricalVol(SubSeq(weeks, 1, i + 1))
    ELSE Flt(2000)

\* x * n for a float x and a Python int n.
FTimes(x, n) ==
    IF IsNum(x) THEN Flt(x.v * n)
    ELSE IF IsNaN(x) \/ n = 0 THEN NaN
    ELSE IF n < 0 THEN FNeg(x) ELSE x

\* strategy_template.py:97-99
StrikeOf(price) == FMul(price, Flt(10500))
T_WEEK == FDiv(Flt(SCALE), Flt(52 * SCALE))
RATE == Flt(200)

(***************************************************************************)
(* The simulator: one run of generate_signals.                             *)
(***************************************************************************)

\* The longest price sequence explored.
MaxWeeks == 4

Prices == {Flt(50 * SCALE), Flt(100 * SCALE), Flt(106 * SCALE), Flt(210 * SCALE)}
InitialCash == {0, 5300 * SCALE}

VARIABLES
    valid_weeks,          \* the valid weekly closes, in order (dates left out)
    initial_cash,         \* self.initial_cash
    ticker,               \* whether self.ticker is set
    pc,                   \* where the run is
    error,                \* the exception that ended the run, or "none"
    iv,                   \* the fetched implied volatility, or None
    iv_calls,             \* how many times get_current_iv was called
    idx,                  \* the loop index
    shares, cash, premiums_collected,
    shares_to_buy, contracts, leftover_shares, sigma, strike, premium,
    assignment,
    price_list, premiums, contracts_sold, shares_list, cash_list, value_list,
    assignment_list, leftover_shares_list, debug_rows,
    portfolio,            \* the returned ledger, or None
    bs_pc, bs_args, bs_ret \* a call of black_scholes_call on its own

simVars == <<valid_weeks, initial_cash, ticker, pc, error, iv, iv_calls, idx,
             shares, cash, premiums_collected, shares_to_buy, contracts,
             leftover_shares, sigma, strike, premium, assignment, price_list,
             premiums, contracts_sold, shares_list, cash_list, value_list,
             assignment_list, leftover_shares_list, debug_rows, portfolio>>
bsVars == <<bs_pc, bs_args, bs_ret>>
vars == <<simVars, bsVars>>

lists == <<price_list, premiums, contracts_sold, shares_list, cash_list,
           value_list, assignment_list, leftover_shares_list, debug_rows>>
weekLocals == <<shares_to_buy, contracts, leftover_shares, sigma, strike,
                premium, assignment>>
inputs == <<valid_weeks, initial_cash, ticker>>

n == Len(valid_weeks)
price == valid_weeks[idx + 1]

WeekSeqs == UNION {[1..k -> Prices] : k \in 0..MaxWeeks}

\* strategy_template.py:61-74: the state before the lookup and the loop.
SimStart ==
    /\ pc = "start"
    /\ error = "none"
    /\ iv = None
    /\ iv_calls = 0
    /\ idx = 0
    /\ shares = 100
    /\ cash = Flt(initial_cash)
    /\ premiums_collected = Flt(0)
    /\ shares_to_buy = 0
    /\ contracts = 0
    /\ leftover_shares = 0
    /\ sigma = None
    /\ strike = None
    /\ premium = None
    /\ assignment = FALSE
    /\ price_list = <<>>
    /\ premiums = <<>>
    /\ contracts_sold = <<>>
    /\ shares_list = <<>>
    /\ cash_list = <<>>
    /\ value_list = <<>>
    /\ assignment_list = <<>>
    /\ leftover_shares_list = <<>>
    /\ debug_rows = <<>>
    /\ portfolio = None

BsIdle ==
    /\ bs_pc = "idle"
    /\ bs_args = [S |-> Flt(0), K |-> Flt(0), T |-> Flt(0), r |-> Flt(0), sigma |-> Flt(0)]
    /\ bs_ret = None

Init ==
    /\ valid_weeks \in WeekSeqs
    /\ initial_cash \in InitialCash
    /\ ticker \in BOOLEAN
    /\ SimStart
    /\ BsIdle

\* strategy_template.py:76 with a ticker: the one lookup, with the first
\* week's price.
FetchIV ==
    /\ pc = "start"
    /\ ticker
    /\ n > 0
    /\ \E outcome \in YfOutcomes : iv' = get_current_iv(valid_weeks[1], outcome)
    /\ iv_calls' = iv_calls + 1
    /\ pc' = "reinvest"
    /\ UNCHANGED <<inputs, error, idx, shares, cash, premiums_collected,
                   weekLocals, lists, portfolio, bsVars>>

\* strategy_template.py:76 with a ticker and no valid week: valid_weeks[0]
\* raises IndexError before get_current_iv is entered.
FetchIVIndexError ==
    /\ pc = "start"
    /\ ticker
    /\ n = 0
    /\ pc' = "raised"
    /\ error' = "IndexError"
    /\ UNCHANGED <<inputs, iv, iv_calls, idx, shares, cash, premiums_collected,
                   weekLocals, lists, portfolio, bsVars>>

\* strategy_template.py:76 without a ticker: iv = None.
NoTicker ==
    /\ pc = "start"
    /\ ~ticker
    /\ iv' = None
    /\ pc' = "reinvest"
    /\ UNCHANGED <<inputs, error, iv_calls, idx, shares, cash,
                   premiums_collected, weekLocals, lists, portfolio, bsVars>>

\* int(cash // price)
SharesToBuy(c, p) == c.v \div p.v

\* strategy_template.py:77-83
Reinvest ==
    /\ pc = "reinvest"
    /\ idx < n
    /\ IsNum(cash)
    /\ price_list' = Append(price_list, price)
    /\ shares_to_buy' = SharesToBuy(cash, price)
    /\ IF shares_to_buy' > 0
       THEN /\ shares' = shares + shares_to_buy'
            /\ cash' = FSub(cash, FTimes(price, shares_to_buy'))
       ELSE UNCHANGED <<shares, cash>>
    /\ pc' = "size"
    /\ UNCHANGED <<inputs, error, iv, iv_calls, idx, premiums_collected,
                   contracts, leftover_shares, sigma, strike, premium,
                   assignment, premiums, contracts_sold, shares_list, cash_list,
                   value_list, assignment_list, leftover_shares_list,
                   debug_rows, portfolio, bsVars>>

\* strategy_template.py:80 when cash is nan: int(nan) raises ValueError.
ReinvestValueError ==
    /\ pc = "reinvest"
    /\ idx < n
    /\ ~IsNum(cash)
    /\ price_list' = Append(price_list, price)
    /\ pc' = "raised"
    /\ error' = "ValueError"
    /\ UNCHANGED <<inputs, iv, iv_calls, idx, shares, cash, premiums_collected,
                   weekLocals, premiums, contracts_sold, shares_list, cash_list,
                   value_list, assignment_list, leftover_shares_list,
                   debug_rows, portfolio, bsVars>>

\* A lot sizing that rounds the contracts up.
ContractsOf_RoundsUp(sh) == (sh + 99) \div 100

\* strategy_template.py:84
ContractsOf(sh) == sh \div 100
\* strategy_template.py:85
LeftoverOf(sh) == sh % 100

\* strategy_template.py:84-85
LotSize ==
    /\ pc = "size"
    /\ contracts' = ContractsOf(shares)
    /\ leftover_shares' = LeftoverOf(shares)
    /\ pc' = "sigma"
    /\ UNCHANGED <<inputs, error, iv, iv_calls, idx, shares, cash,
                   premiums_collected, shares_to_buy, sigma, strike, premium,
                   assignment, lists, portfolio, bsVars>>

\* strategy_template.py:87-94
Volatility ==
    /\ pc = "sigma"
    /\ sigma' = SelectSigma(iv, idx, valid_weeks)
    /\ pc' = "premium"
    /\ UNCHANGED <<inputs, error, iv, iv_calls, idx, shares, cash,
                   premiums_collected, shares_to_buy, contracts,
                   leftover_shares, strike, premium, assignment, lists,
                   portfolio, bsVars>>

\* strategy_template.py:96-107
CollectPremium ==
    /\ pc = "premium"
    /\ IF contracts > 0
       THEN /\ strike' = StrikeOf(price)
            /\ premium' = FTimes(black_scholes_call(price, strike', T_WEEK, RATE, sigma),
                                 contracts)
            /\ cash' = FAdd(cash, premium')
            /\ premiums_collected' = FAdd(premiums_collected, premium')
       ELSE /\ premium' = Flt(0)
            /\ UNCHANGED <<strike, cash, premiums_collected>>
    /\ premiums' = Append(premiums, premiums_collected')
    /\ contracts_sold' = Append(contracts_sold, contracts)
    /\ assignment' = FALSE
    /\ pc' = "assign"
    /\ UNCHANGED <<inputs, error, iv, iv_calls, idx, shares, shares_to_buy,
                   contracts, leftover_shares, sigma, price_list, shares_list,
                   cash_list, value_list, assignment_list, leftover_shares_list,
                   debug_rows, portfolio, bsVars>>

\* strategy_template.py:109-111: the option written this week is exercised.
Exercised == contracts > 0 /\ idx < n - 1 /\ FGe(valid_weeks[idx + 2], strike)

\* strategy_template.py:107-115, for a given exercise test and number of
\* shares sold.
AssignStep(exercised, sold) ==
    /\ pc = "assign"
    /\ IF exercised
       THEN /\ cash' = FAdd(cash, FTimes(strike, contracts * 100))
            /\ shares' = shares - sold
            /\ assignment' = TRUE
       ELSE UNCHANGED <<cash, shares, assignment>>
    /\ pc' = "record"
    /\ UNCHANGED <<inputs, error, iv, iv_calls, idx, premiums_collected,
                   shares_to_buy, contracts, leftover_shares, sigma, strike,
                   premium, lists, portfolio, bsVars>>

\* An assignment that sells every share held, the leftover ones included.
AssignmentCheck_SellsAll == AssignStep(Exercised, shares)

\* An assignment check that does not ask for a contract.
AssignmentCheck_NoContractsTest ==
    AssignStep(idx < n - 1 /\ FGe(valid_weeks[idx + 2], strike), contracts * 100)

\* An assignment check that takes the week after the last to be the first.
AssignmentCheck_WrapsAround ==
    AssignStep(contracts > 0 /\ FGe(valid_weeks[((idx + 1) % n) + 1], strike),
               contracts * 100)

\* strategy_template.py:107-115
AssignmentCheck == AssignStep(Exercised, contracts * 100)

\* strategy_template.py:116-132 (debug = True, the default), and the loop's
\* step to the next week.
RecordRow ==
    /\ pc = "record"
    /\ shares_list' = Append(shares_list, shares)
    /\ cash_list' = Append(cash_list, cash)
    /\ value_list' = Append(value_list, FAdd(cash, FTimes(price, shares)))
    /\ assignment_list' = Append(assignment_list, assignment)
    /\ leftover_shares_list' = Append(leftover_shares_list, leftover_shares)
    /\ debug_rows' = Append(debug_rows,
           [Price |-> price, Shares |-> shares, Contracts |-> contracts,
            LeftoverShares |-> leftover_shares, Cash |-> cash,
            Premium |-> premium, Sigma |-> sigma, Assignment |-> assignment])
    /\ idx' = idx + 1
    /\ pc' = "reinvest"
    /\ UNCHANGED <<inputs, error, iv, iv_calls, shares, cash,
                   premiums_collected, weekLocals, price_list, premiums,
                   contracts_sold, portfolio, bsVars>>

\* strategy_template.py:133-144: the ledger, one row per list position.
Return ==
    /\ pc = "reinvest"
    /\ idx = n
    /\ portfolio' = [i \in 1..n |->
           [PortfolioValue |-> value_list[i],
            PremiumsCollected |-> premiums[i],
            ContractsSold |-> contracts_sold[i],
            SharesHeld |-> shares_list[i],
            LeftoverShares |-> leftover_shares_list[i],
            Assignment |-> assignment_list[i],
            Close |-> price_list[i]]]
    /\ pc' = "done"
    /\ UNCHANGED <<inputs, error, iv, iv_calls, idx, shares, cash,
                   premiums_collected, weekLocals, lists, bsVars>>

Next ==
    \/ FetchIV
    \/ FetchIVIndexError
    \/ NoTicker
    \/ Reinvest
    \/ ReinvestValueError
    \/ LotSize
    \/ Volatility
    \/ CollectPremium
    \/ AssignmentCheck
    \/ RecordRow
    \/ Return

Spec == Init /\ [][Next]_vars

(***************************************************************************)
(* The pricer on its own: one call of black_scholes_call per behaviour.    *)
(***************************************************************************)

BsInputs ==
    [S : {Flt(-100 * SCALE), Flt(0), Flt(100 * SCALE), Flt(210 * SCALE)},
     K : {Flt(-105 * SCALE), Flt(0), Flt(100 * SCALE), Flt(105 * SCALE)},
     T : {Flt(-SCALE), Flt(0), T_WEEK, Flt(SCALE)},
     r : {RATE, Flt(-40000 * SCALE)},
     sigma : {Flt(-2000), Flt(0), Flt(2000), Flt(5000), NaN}]

InitBS ==
    /\ valid_weeks = <<>>
    /\ initial_cash = 0
    /\ ticker = FALSE
    /\ SimStart
    /\ bs_pc = "call"
    /\ bs_args \in BsInputs
    /\ bs_ret = None

BsCall ==
    /\ bs_pc = "call"
    /\ bs_ret' = black_scholes_call(bs_args.S, bs_args.K, bs_args.T, bs_args.r,
                                    bs_args.sigma)
    /\ bs_pc' = "returned"
    /\ UNCHANGED <<simVars, bs_args>>

NextBS == BsCall

SpecBS == InitBS /\ [][NextBS]_vars

(***************************************************************************)
(* Properties.                                                             *)
(***************************************************************************)

Rows(ledger) == 1..Len(ledger)
NoLookupResult == IsNone(iv) \/ ~FGt(iv, Flt(0))
ExampleWeeks == <<Flt(100 * SCALE), Flt(100 * SCALE), Flt(106 * SCALE)>>

\* C1: over a non-empty sequence of positive prices, with any initial cash and
\* with or without an implied volatility, the run raises no error and returns
\* one row per week, in input order.
C1_NoErrorOneRowPerWeek ==
    n >= 1 =>
        /\ pc # "raised"
        /\ pc = "done" =>
              /\ Len(portfolio) = n
              /\ \A i \in 1..n : portfolio[i].Close = valid_weeks[i]

\* C2: for prices [100, 100, 106], initial cash 0 and no implied volatility
\* the run returns three rows: week 0 with 100 shares, 1 contract, no
\* leftover, a positive premium and no assignment; week 1 with 1 contract,
\* assigned, 0 shares; week 2 with 0 shares at lot sizing, 0 contracts, no
\* premium added and no assignment.
C2_ExampleLedger ==
    (valid_weeks = ExampleWeeks /\ initial_cash = 0 /\ ~ticker) =>
        /\ pc # "raised"
        /\ (idx = 2 /\ pc = "sigma") => shares = 0
        /\ pc = "done" =>
              /\ Len(portfolio) = 3
              /\ portfolio[1].SharesHeld = 100
              /\ portfolio[1].ContractsSold = 1
              /\ portfolio[1].LeftoverShares = 0
              /\ FGt(portfolio[1].PremiumsCollected, Flt(0))
              /\ ~portfolio[1].Assignment
              /\ portfolio[2].ContractsSold = 1
              /\ portfolio[2].Assignment
              /\ portfolio[2].SharesHeld = 0
              /\ portfolio[3].ContractsSold = 0
              /\ portfolio[3].PremiumsCollected = portfolio[2].PremiumsCollected
              /\ ~portfolio[3].Assignment

\* C3: with no valid week the run returns an empty ledger and raises nothing,
\* with a ticker and without one.
C3_EmptyLedger ==
    n = 0 =>
        /\ pc # "raised"
        /\ pc = "done" => Len(portfolio) = 0

\* The shares recorded for the week before week idx (100 before week 0).
PrevShares == IF idx = 0 THEN 100 ELSE shares_list[idx]

C5_PremiumsNonDecreasing ==
    pc = "done" =>
        \A i \in Rows(portfolio) :
            FGe(portfolio[i].PremiumsCollected,
                IF i = 1 THEN Flt(0) ELSE portfolio[i - 1].PremiumsCollected)

\* C6: in a week with no contract the premium is exactly 0 and the premium
\* step leaves cash and the cumulative premiums alone; the assignment flag
\* stays false and the assignment step leaves shares and cash alone.
C6_ZeroContracts ==
    [][/\ (pc = "premium" /\ contracts = 0) =>
             /\ premium' = Flt(0)
             /\ cash' = cash
             /\ premiums_collected' = premiums_collected
             /\ premiums'[Len(premiums')] = premiums_collected
       /\ (pc = "assign" /\ contracts = 0) =>
             /\ ~assignment'
             /\ shares' = shares
             /\ cash' = cash
       /\ (pc = "record" /\ contracts = 0) =>
             /\ ~assignment_list'[Len(assignment_list')]
             /\ debug_rows'[Len(debug_rows')].Premium = Flt(0)]_vars

\* C6's case: a week without contracts is followed by a price at or above 1.05
\* times its own.
C6_Witness ==
    /\ pc = "record"
    /\ contracts = 0
    /\ idx < n - 1
    /\ FGe(valid_weeks[idx + 2], StrikeOf(price))

\* C7: the last week's assignment flag is false, and its assignment step
\* changes neither shares nor cash.
C7_LastWeekNeverAssigned ==
    [][/\ (pc = "assign" /\ idx = n - 1) =>
             /\ ~assignment'
             /\ shares' = shares
             /\ cash' = cash
       /\ (pc = "record" /\ idx = n - 1) =>
             ~assignment_list'[Len(assignment_list')]
       /\ pc' = "done" => (n >= 1 => ~portfolio'[n].Assignment)]_vars

\* C7's case: a one-week run, whose only week sells a contract, has returned.
C7_Witness ==
    pc = "done" /\ n = 1 /\ portfolio[1].ContractsSold > 0

FallbackSigma(i) ==
    IF i = 0 THEN Flt(2000) ELSE HistoricalVol(SubSeq(valid_weeks, 1, i + 1))

\* C9: the lookup runs at most once, before the first week; when it fails or
\* returns nothing or a value that is not > 0, the run does not abort and
\* every week uses the fallback volatility; when it returns a value > 0,
\* every week uses that value.
C9_LookupOnceAndFallback ==
    /\ iv_calls <= 1
    /\ pc = "start" => iv_calls = 0
    /\ (n >= 1 /\ ticker /\ pc # "start") => iv_calls = 1
    /\ (n >= 1 /\ ticker /\ pc # "start" /\ NoLookupResult) => pc # "raised"
    /\ \A i \in 1..Len(debug_rows) :
          debug_rows[i].Sigma = (IF NoLookupResult THEN FallbackSigma(i - 1) ELSE iv)

\* What C9 says apart from "the run does not abort": it holds of every run.
LookupOnceAndSigmaChoice ==
    /\ iv_calls <= 1
    /\ pc = "start" => iv_calls = 0
    /\ (n >= 1 /\ ticker /\ pc # "start") => iv_calls = 1
    /\ error # "none" => error \in {"IndexError", "ValueError"}
    /\ error = "IndexError" <=> (pc = "raised" /\ n = 0)
    /\ \A i \in 1..Len(debug_rows) :
          debug_rows[i].Sigma = (IF NoLookupResult THEN FallbackSigma(i - 1) ELSE iv)

\* C10: black_scholes_call returns 0.0 when S, K, sigma or T is <= 0, and a
\* value >= 0 for all finite inputs.
C10_PricerNonNegative ==
    bs_pc = "returned" =>
        /\ (\/ FLe(bs_args.S, Flt(0)) \/ FLe(bs_args.K, Flt(0))
            \/ FLe(bs_args.sigma, Flt(0)) \/ FLe(bs_args.T, Flt(0)))
           => bs_ret = Flt(0)
        /\ IsNum(bs_args.sigma) => FGe(bs_ret, Flt(0))

\* What C10 says of the degenerate inputs holds, and so does its lower bound
\* when the discount factor exp(-r T) does not overflow.
DegenerateIsZero ==
    bs_pc = "returned" =>
        /\ Degenerate(bs_args.S, bs_args.K, bs_args.T, bs_args.r, bs_args.sigma)
           => bs_ret = Flt(0)
        /\ (IsNum(bs_args.sigma) /\ IsNum(Exp(FMul(FNeg(bs_args.r), bs_args.T))))
           => FGe(bs_ret, Flt(0))

====
